---- MODULE Spec2Model ----
(***************************************************************************)
(* RBAC authorization engine of pronoyon-backend (apps.rbac).              *)
(*                                                                         *)
(* State: the rbac_user_roles table (UserRole rows keyed by the unique     *)
(* triple user/role/context), the rbac_roles table with the role/permission*)
(* relation, the rbac_permissions table, the rbac_role_history table       *)
(* (RoleHistory, in insertion order), the wall clock, the outcome of the   *)
(* last call, and the open transactions of the interleaved model.          *)
(* Fields that no operation reads back (assigned_by, notes, assigned_at,   *)
(* reason, metadata) are not represented.                                  *)
(***************************************************************************)
EXTENDS Integers, Sequences, FiniteSets, TLC

(* ---------------------------------------------------------------- bounds *)
MaxTime == 1
MaxHist == 2

(* ------------------------------------------------------------- universes *)
\* SQL NULL of the nullable integer/datetime columns (expires_at, max_users).
NULL == -1
NoRole == "none"
Users == {"u1", "u2"}
RoleIds == {"r1", "r2", "r3"}
\* The roles that are assigned to principals; r3 takes part in the role
\* graph only.
AssignedRoles == {"r1", "r2"}
Contexts == {"c0", "c1"}
PermissionNames == {"content.view", "content.create", "content.delete"}
AllKeys == [user : Users, role : RoleIds, context : Contexts]
\* The identity triples of one principal (u1 and either role) ...
Keys ==
  {k \in AllKeys : k.user = "u1" /\ k.role \in AssignedRoles /\ k.context = "c0"}
\* ... and of one capped role (r1 and either principal).
CapKeys == {k \in AllKeys : k.role = "r1" /\ k.context = "c0"}
\* The identity triples of one principal and one role under either context.
CtxKeys == {k \in AllKeys : k.user = "u1" /\ k.role = "r2"}
Times == 0..MaxTime
Expiries == {NULL} \cup Times
Principals == [id : Users, is_superuser : BOOLEAN]

VARIABLES rows, roles, permissions, history, now, last, tx

vars == <<rows, roles, permissions, history, now, last, tx>>

Key(u, r, c) == [user |-> u, role |-> r, context |-> c]
\* No row (None).
NoKey == [user |-> "-", role |-> "-", context |-> "-"]

\* The role catalog after seeding: r1 is a capped role and the default
\* role, r2 inherits from r1 and r3 from r2; r3 is granted a permission of
\* its own and one that r1 is granted too.
SeedRoles ==
  [r \in RoleIds |->
     IF r = "r1"
     THEN [name |-> "User", level |-> 10, is_active |-> TRUE, max_users |-> 1,
           is_default |-> TRUE,
           inherits_from |-> NoRole, permissions |-> {"content.view"}]
     ELSE IF r = "r2"
     THEN [name |-> "Premium User", level |-> 20, is_active |-> TRUE, max_users |-> NULL,
           is_default |-> FALSE,
           inherits_from |-> "r1", permissions |-> {"content.create"}]
     ELSE [name |-> "Moderator", level |-> 30, is_active |-> TRUE, max_users |-> NULL,
           is_default |-> FALSE,
           inherits_from |-> "r2",
           permissions |-> {"content.delete", "content.view"}]]

\* The permission catalog after seeding: every permission is active.
SeedPermissions == [n \in PermissionNames |-> [is_active |-> TRUE]]

(* ----------------------------------------------------------- Role model *)
\* Role.get_user_count: rows of the role whose is_active flag is set.
get_user_count(rs, r) ==
  Cardinality({k \in DOMAIN rs : k.role = r /\ rs[k].is_active})

\* Mutant: the capacity test off by one.
can_assign_more_users_le(rs, ro, r) ==
  IF ro[r].max_users = NULL THEN TRUE
  ELSE get_user_count(rs, r) <= ro[r].max_users

\* Role.can_assign_more_users
can_assign_more_users(rs, ro, r) ==
  IF ro[r].max_users = NULL THEN TRUE
  ELSE get_user_count(rs, r) < ro[r].max_users

\* Mutant: inheritance followed for one link only.
get_all_permissions_one_link(pe, ro, r) ==
  {n \in ro[r].permissions : pe[n].is_active} \cup
    (IF ro[r].inherits_from # NoRole
     THEN {n \in ro[ro[r].inherits_from].permissions : pe[n].is_active}
     ELSE {})

\* Role.get_all_permissions: the active direct permissions plus the
\* parent's, recursively.  pe is the permission table, ro the role table.
RECURSIVE get_all_permissions(_, _, _)
get_all_permissions(pe, ro, r) ==
  {n \in ro[r].permissions : pe[n].is_active} \cup
    (IF ro[r].inherits_from # NoRole
     THEN get_all_permissions(pe, ro, ro[r].inherits_from)
     ELSE {})

\* Role.has_permission
has_permission(pe, ro, r, name) == name \in get_all_permissions(pe, ro, r)

\* Role.clean, the while loop: follow the persisted parent links from parent
\* and report whether the role r itself is met.
RECURSIVE chain_reaches(_, _, _)
chain_reaches(ro, r, parent) ==
  IF parent = NoRole THEN FALSE
  ELSE IF parent = r THEN TRUE
       ELSE chain_reaches(ro, r, ro[parent].inherits_from)

\* Mutant: only a role named as its own parent is rejected.
Role_clean_self_only(ro, r, inst) ==
  IF inst.inherits_from = r THEN {"inherits_from"}
  ELSE IF inst.is_default
          /\ \E o \in RoleIds \ {r} : ro[o].is_default /\ ro[o].level = inst.level
       THEN {"is_default"}
       ELSE {}

\* Role.clean for the instance inst of the saved role r: the field the
\* ValidationError is raised for, as a set (empty when the role is valid).
Role_clean(ro, r, inst) ==
  IF inst.inherits_from # NoRole /\ chain_reaches(ro, r, inst.inherits_from)
  THEN {"inherits_from"}
  ELSE IF inst.is_default
          /\ \E o \in RoleIds \ {r} : ro[o].is_default /\ ro[o].level = inst.level
       THEN {"is_default"}
       ELSE {}

\* Role.save: full_clean, then the write.  The outcome is the role table
\* afterwards and the fields of the ValidationError raised.
Role_save(ro, r, inst) ==
  IF Role_clean(ro, r, inst) # {}
  THEN [roles |-> ro, err |-> Role_clean(ro, r, inst)]
  ELSE [roles |-> [ro EXCEPT ![r] = inst], err |-> {}]

\* RoleService.update_role(role, inherits_from=parent): setattr, full_clean,
\* save; the ValidationError of either leaves the table as it was.
update_role(ro, r, parent) ==
  Role_save(ro, r, [ro[r] EXCEPT !.inherits_from = parent])

\* PermissionService.update_permission(permission, is_active=a), which
\* deactivate_permission is the a = False case of.
update_permission(pe, n, a) == [pe EXCEPT ![n].is_active = a]

(* ------------------------------------------------------- UserRole model *)
\* The other rows of the user that are flagged primary and active
\* (UserRole.objects.filter(user, is_primary=True, is_active=True).exclude(pk)).
\* excl is the set of excluded primary keys: empty for an unsaved instance.
OtherActivePrimaries(rs, u, excl) ==
  {k \in DOMAIN rs : k.user = u /\ rs[k].is_primary /\ rs[k].is_active /\ k \notin excl}

\* Mutant: the primary check made for unsaved instances only.
UserRole_clean_new_only(rs, ro, k, inst, hasPk) ==
  IF ~hasPk /\ ~can_assign_more_users(rs, ro, k.role) THEN {"role"}
  ELSE IF ~hasPk /\ inst.is_primary /\ OtherActivePrimaries(rs, k.user, {}) # {}
       THEN {"is_primary"}
       ELSE {}

\* UserRole.clean: the field the ValidationError is raised for, as a set
\* (empty when the instance is valid).  hasPk is "self.pk is set".
UserRole_clean(rs, ro, k, inst, hasPk) ==
  IF ~hasPk /\ ~can_assign_more_users(rs, ro, k.role) THEN {"role"}
  ELSE IF inst.is_primary
          /\ OtherActivePrimaries(rs, k.user, IF hasPk THEN {k} ELSE {}) # {}
       THEN {"is_primary"}
       ELSE {}

\* Model.validate_unique for unique_together (user, role, context).
validate_unique(rs, k, hasPk) ==
  IF ~hasPk /\ k \in DOMAIN rs THEN {"__all__"} ELSE {}

\* Mutant: a save that validates uniqueness but never calls clean().
full_clean_unique_only(rs, ro, k, inst, hasPk) == validate_unique(rs, k, hasPk)

\* Model.full_clean: the errors of clean() and validate_unique() together.
full_clean(rs, ro, k, inst, hasPk) ==
  UserRole_clean(rs, ro, k, inst, hasPk) \cup validate_unique(rs, k, hasPk)

Entry(k, action) == [user |-> k.user, role |-> k.role, action |-> action]

\* signals.log_role_assignment (post_save): what the save appends to history.
log_role_assignment(k, inst, created) ==
  IF created THEN <<Entry(k, "assigned")>>
  ELSE IF ~inst.is_active THEN <<Entry(k, "revoked")>>
       ELSE <<>>

\* A database: the two tables an operation writes.
DB(rs, h) == [rows |-> rs, history |-> h]

\* Outcome of a call on a database: the database afterwards, the fields of
\* the ValidationError raised (empty when none) and the value returned.
Out(db, err, ret) == [db |-> db, err |-> err, ret |-> ret]

Put(rs, k, inst) == [x \in DOMAIN rs \cup {k} |-> IF x = k THEN inst ELSE rs[x]]

\* UserRole.save: full_clean, then the write, then the post_save signal.
UserRole_save(db, ro, k, inst, hasPk) ==
  LET errs == full_clean(db.rows, ro, k, inst, hasPk) IN
  IF errs # {} THEN Out(db, errs, 0)
  ELSE Out(DB(Put(db.rows, k, inst),
              db.history \o log_role_assignment(k, inst, ~hasPk)), {}, 1)

(* ------------------------------------------------------ UserRoleService *)
\* Mutant: the demotion of the other primaries left out.
clear_no_primaries(rs, u, k) == rs

\* update(is_primary=False) on the other active primaries of the user.
clear_other_primaries(rs, u, k) ==
  [x \in DOMAIN rs |->
     IF x \in OtherActivePrimaries(rs, u, {k})
     THEN [rs[x] EXCEPT !.is_primary = FALSE] ELSE rs[x]]

\* assign_role_to_user, first statement: the capacity check.
assign_check(rs, ro, r) == can_assign_more_users(rs, ro, r)

\* assign_role_to_user, get_or_create and the update of an existing row.
assign_get_or_create(db, ro, k, e, p) ==
  IF k \notin DOMAIN db.rows
  THEN UserRole_save(db, ro, k,
         [is_active |-> TRUE, is_primary |-> p, expires_at |-> e], FALSE)
  ELSE UserRole_save(db, ro, k,
         [db.rows[k] EXCEPT !.is_active = TRUE, !.expires_at = e,
                            !.is_primary = p], TRUE)

\* assign_role_to_user, last statement: demote the other primaries.
assign_clear(db, k, p) ==
  IF p THEN DB(clear_other_primaries(db.rows, k.user, k), db.history) ELSE db

\* UserRoleService.assign_role_to_user as one transaction; an exception
\* rolls the transaction back, so the database is the one before the call.
assign_role_to_user(db, ro, k, e, p) ==
  IF ~assign_check(db.rows, ro, k.role) THEN Out(db, {"max_users"}, 0)
  ELSE LET saved == assign_get_or_create(db, ro, k, e, p) IN
       IF saved.err # {} THEN Out(db, saved.err, 0)
       ELSE Out(assign_clear(saved.db, k, p), {}, 1)

\* Mutant: a revoke that reports a row of the pair whether it was active or not.
revoke_role_from_user_any_row(db, ro, u, r, bySlug) ==
  Out(DB([x \in DOMAIN db.rows |->
            IF x.user = u /\ x.role = r
            THEN [db.rows[x] EXCEPT !.is_active = FALSE] ELSE db.rows[x]],
         db.history),
      {}, IF \E k \in DOMAIN db.rows : k.user = u /\ k.role = r THEN 1 ELSE 0)

\* UserRoleService.revoke_role_from_user.  bySlug: the role is given as a
\* slug and looked up with RoleSelectors.get_role_by_slug (active roles only).
revoke_role_from_user(db, ro, u, r, bySlug) ==
  IF bySlug /\ ~ro[r].is_active THEN Out(db, {}, 0)
  ELSE LET hit == {k \in DOMAIN db.rows :
                     k.user = u /\ k.role = r /\ db.rows[k].is_active} IN
       Out(DB([x \in DOMAIN db.rows |->
                 IF x \in hit THEN [db.rows[x] EXCEPT !.is_active = FALSE]
                 ELSE db.rows[x]], db.history),
           {}, IF hit # {} THEN 1 ELSE 0)

\* UserRoleService.set_primary_role on the instance read from row k.
set_primary_role(db, ro, k) ==
  LET cleared == clear_other_primaries(db.rows, k.user, k)
      saved == UserRole_save(DB(cleared, db.history), ro, k,
                 [db.rows[k] EXCEPT !.is_primary = TRUE], TRUE)
  IN IF saved.err # {} THEN Out(db, saved.err, 0) ELSE saved

\* UserRoleService.extend_role_expiration on the instance read from row k.
extend_role_expiration(db, ro, k, e) ==
  UserRole_save(db, ro, k, [db.rows[k] EXCEPT !.expires_at = e], TRUE)

\* Mutant: a row expiring exactly now is not yet due.
get_expired_user_roles_lt(rs, t) ==
  {k \in DOMAIN rs :
     rs[k].is_active /\ rs[k].expires_at # NULL /\ rs[k].expires_at < t}

\* Mutant: every active row that carries an expiry, due or not.
get_expired_user_roles_any_expiry(rs, t) ==
  {k \in DOMAIN rs : rs[k].is_active /\ rs[k].expires_at # NULL}

\* UserRoleSelectors.get_expired_user_roles at time t.
get_expired_user_roles(rs, t) ==
  {k \in DOMAIN rs :
     rs[k].is_active /\ rs[k].expires_at # NULL /\ rs[k].expires_at <= t}

\* The rows of a queryset in the order the loop visits them.
RECURSIVE QueryList(_)
QueryList(S) ==
  IF S = {} THEN <<>>
  ELSE LET k == CHOOSE x \in S : TRUE IN <<k>> \o QueryList(S \ {k})

expired_entries(ks) == [i \in 1..Len(ks) |-> Entry(ks[i], "expired")]

\* UserRoleService.expire_user_roles: count(), update(), then the loop over
\* the same lazy queryset, which is evaluated after the update.
expire_user_roles(db, t) ==
  LET count == Cardinality(get_expired_user_roles(db.rows, t))
      updated == [x \in DOMAIN db.rows |->
                    IF x \in get_expired_user_roles(db.rows, t)
                    THEN [db.rows[x] EXCEPT !.is_active = FALSE]
                    ELSE db.rows[x]]
      looped == QueryList(get_expired_user_roles(updated, t))
  IN Out(DB(updated, db.history \o expired_entries(looped)), {}, count)

\* RoleExpirationMiddleware.process_request for an authenticated user.
process_request(db, u, t) ==
  Out(DB([x \in DOMAIN db.rows |->
            IF x \in get_expired_user_roles(db.rows, t) /\ x.user = u
            THEN [db.rows[x] EXCEPT !.is_active = FALSE] ELSE db.rows[x]],
         db.history), {}, 0)

\* Mutant: a deactivation that leaves the assignments of the role alone.
deactivate_role_rows_none(rs, r) == rs

\* RoleService.deactivate_role: the assignments are updated in bulk.
deactivate_role_rows(rs, r) ==
  [x \in DOMAIN rs |->
     IF x.role = r /\ rs[x].is_active
     THEN [rs[x] EXCEPT !.is_active = FALSE] ELSE rs[x]]

(* ---------------------------------------------------------- read paths *)
\* Mutant: the expiry filter left out of the read path.
get_user_active_roles_flag_only(rs, ro, u, t) ==
  {k \in DOMAIN rs : k.user = u /\ rs[k].is_active /\ ro[k.role].is_active}

\* UserRoleSelectors.get_user_active_roles at time t.
get_user_active_roles(rs, ro, u, t) ==
  {k \in DOMAIN rs :
     /\ k.user = u
     /\ rs[k].is_active
     /\ ro[k.role].is_active
     /\ (rs[k].expires_at = NULL \/ rs[k].expires_at > t)}

\* UserRoleSelectors.get_user_primary_role: the first active row flagged
\* primary, NoKey for None.
get_user_primary_role(rs, ro, u, t) ==
  LET S == {k \in get_user_active_roles(rs, ro, u, t) : rs[k].is_primary} IN
  IF S = {} THEN NoKey ELSE CHOOSE k \in S : TRUE

\* UserRoleSelectors.user_has_role: the identifier is a slug or a name.
user_has_role(rs, ro, u, t, ident) ==
  \E k \in get_user_active_roles(rs, ro, u, t) :
    k.role = ident \/ ro[k.role].name = ident

\* Mutant: the permissions of the first active assignment only.
get_user_permissions_first(rs, pe, ro, u, t) ==
  IF get_user_active_roles(rs, ro, u, t) = {} THEN {}
  ELSE get_all_permissions(pe, ro,
         (CHOOSE k \in get_user_active_roles(rs, ro, u, t) : TRUE).role)

\* UserRoleSelectors.get_user_permissions
get_user_permissions(rs, pe, ro, u, t) ==
  UNION {get_all_permissions(pe, ro, k.role) :
           k \in get_user_active_roles(rs, ro, u, t)}

\* Mutant: the superuser flag never consulted.
user_has_permission_no_bypass(rs, pe, ro, pr, t, name) ==
  name \in get_user_permissions(rs, pe, ro, pr.id, t)

\* PermissionCheckService.user_has_permission
user_has_permission(rs, pe, ro, pr, t, name) ==
  IF pr.is_superuser THEN TRUE
  ELSE name \in get_user_permissions(rs, pe, ro, pr.id, t)

\* PermissionCheckService.user_has_any_permission
user_has_any_permission(rs, pe, ro, pr, t, names) ==
  IF pr.is_superuser THEN TRUE
  ELSE names \cap get_user_permissions(rs, pe, ro, pr.id, t) # {}

\* PermissionCheckService.user_has_all_permissions
user_has_all_permissions(rs, pe, ro, pr, t, names) ==
  IF pr.is_superuser THEN TRUE
  ELSE names \subseteq get_user_permissions(rs, pe, ro, pr.id, t)

Max(S) == CHOOSE x \in S : \A y \in S : y <= x

\* The highest of Role.ROLE_LEVEL_CHOICES.
MaxRoleLevel == 90

\* PermissionCheckService.get_user_role_level
get_user_role_level(rs, ro, u, t) ==
  IF get_user_active_roles(rs, ro, u, t) = {} THEN 0
  ELSE Max({ro[k.role].level : k \in get_user_active_roles(rs, ro, u, t)})

\* PermissionCheckService.user_meets_minimum_level
user_meets_minimum_level(rs, ro, pr, t, minimum_level) ==
  IF pr.is_superuser THEN TRUE
  ELSE get_user_role_level(rs, ro, pr.id, t) >= minimum_level

(* --------------------------------------------------------------- actions *)
Procs == {"t1", "t2"}
NoRows == [x \in {} |-> 0]
\* A connection with no call in progress.
Idle == [pc |-> "idle", key |-> NoKey, expires_at |-> NULL, is_primary |-> FALSE,
         wrows |-> NoRows, whist |-> <<>>, err |-> {},
         is_active |-> FALSE, count |-> 0, role |-> NoRole, parent |-> NoRole,
         cursor |-> NoRole]

\* What the caller of the last call saw: the operation, the fields of the
\* ValidationError it raised (empty when none) and its return value.
Call(op, out) == [op |-> op, err |-> out.err, ret |-> out.ret]

\* One call run to completion on the committed database.
Apply(op, result) ==
  \E out \in {result} :
    /\ Len(out.db.history) <= MaxHist
    /\ rows' = out.db.rows
    /\ history' = out.db.history
    /\ last' = Call(op, out)
    /\ UNCHANGED <<roles, permissions, now, tx>>

Init ==
  /\ rows = NoRows
  /\ roles = SeedRoles
  /\ permissions = SeedPermissions
  /\ history = <<>>
  /\ now = 0
  /\ last = [op |-> "init", err |-> {}, ret |-> 0]
  /\ tx = [p \in Procs |-> Idle]

Assign(k, e, p) ==
  Apply("assign", assign_role_to_user(DB(rows, history), roles, k, e, p))

Revoke(u, r, bySlug) ==
  Apply("revoke",
        revoke_role_from_user(DB(rows, history), roles, u, r, bySlug))

SetPrimary(k) ==
  /\ k \in DOMAIN rows
  /\ Apply("set_primary", set_primary_role(DB(rows, history), roles, k))

Extend(k, e) ==
  /\ k \in DOMAIN rows
  /\ e # NULL
  /\ Apply("extend",
           extend_role_expiration(DB(rows, history), roles, k, e))

ExpireDue ==
  Apply("expire", expire_user_roles(DB(rows, history), now))

Middleware(u) ==
  Apply("middleware",
        process_request(DB(rows, history), u, now))

\* RoleService.deactivate_role
DeactivateRole(r) ==
  /\ roles' = [roles EXCEPT ![r].is_active = FALSE]
  /\ rows' = deactivate_role_rows(rows, r)
  /\ last' = Call("deactivate_role",
                  Out(DB(rows', history), {}, 0))
  /\ UNCHANGED <<permissions, history, now, tx>>

\* RoleService.update_role with a new parent (NoRole for None).
UpdateRole(r, parent) ==
  \E out \in {update_role(roles, r, parent)} :
    /\ roles' = out.roles
    /\ last' = [op |-> "update_role", err |-> out.err,
                ret |-> IF out.err = {} THEN 1 ELSE 0]
    /\ UNCHANGED <<rows, permissions, history, now, tx>>

\* PermissionService.update_permission / deactivate_permission.
UpdatePermission(n, a) ==
  /\ permissions' = update_permission(permissions, n, a)
  /\ last' = [op |-> "update_permission", err |-> {}, ret |-> 1]
  /\ UNCHANGED <<rows, roles, history, now, tx>>

\* UserRole.objects.create(...): a direct save of a new instance.
SaveNew(k, inst) ==
  Apply("create",
        UserRole_save(DB(rows, history), roles, k, inst, FALSE))

\* A direct save of the instance of an existing row after the caller set its
\* flags (UserRoleViewSet.revoke, a PATCH of the row, a stale instance).
SaveExisting(k, a, p) ==
  /\ k \in DOMAIN rows
  /\ Apply("save",
           UserRole_save(DB(rows, history), roles, k,
             [rows[k] EXCEPT !.is_active = a, !.is_primary = p], TRUE))

Tick ==
  /\ now < MaxTime
  /\ now' = now + 1
  /\ last' = [op |-> "tick", err |-> {}, ret |-> 0]
  /\ UNCHANGED <<rows, roles, permissions, history, tx>>

Instances == [is_active : BOOLEAN, is_primary : BOOLEAN, expires_at : Expiries]

UsersOf(K) == {k.user : k \in K}
RolesOf(K) == {k.role : k \in K}

\* The calls of the service layer for the identity triples K.
ServiceCalls(K) ==
  \/ \E k \in K, e \in Expiries, p \in BOOLEAN : Assign(k, e, p)
  \/ \E u \in UsersOf(K), r \in RolesOf(K), s \in BOOLEAN : Revoke(u, r, s)
  \/ \E k \in K : SetPrimary(k)
  \/ \E k \in K, e \in Expiries : Extend(k, e)
  \/ ExpireDue
  \/ \E u \in UsersOf(K) : Middleware(u)
  \/ \E r \in RolesOf(K) : DeactivateRole(r)

\* The direct saves (the REST endpoints of UserRoleViewSet and the tests
\* save UserRole instances without going through the service layer).
DirectSaves(K) ==
  \/ \E k \in K, inst \in Instances : SaveNew(k, inst)
  \/ \E k \in K, a \in BOOLEAN, p \in BOOLEAN : SaveExisting(k, a, p)

\* The service layer as time passes, for one principal and two roles.
Next == ServiceCalls(Keys) \/ Tick

Spec == Init /\ [][Next]_vars

\* The service layer and the direct saves at one instant, for one principal
\* and two roles.
NextSave == ServiceCalls(Keys) \/ DirectSaves(Keys)

SpecSave == Init /\ [][NextSave]_vars

\* The service layer as time passes, for two principals and the capped role.
NextCapacity == ServiceCalls(CapKeys) \/ Tick

SpecCapacity == Init /\ [][NextCapacity]_vars

\* The service layer as time passes, for one principal holding one role
\* under two contexts.
NextContext == ServiceCalls(CtxKeys) \/ Tick

SpecContext == Init /\ [][NextContext]_vars

(* ------------------------------------------------- user management *)
\* signals.log_role_removal (post_delete): what the deletion of row k appends.
log_role_removal(k) == <<Entry(k, "revoked")>>

RECURSIVE removal_entries(_)
removal_entries(ks) ==
  IF ks = <<>> THEN <<>>
  ELSE log_role_removal(Head(ks)) \o removal_entries(Tail(ks))

\* UserViewSet.destroy: the user's UserRole rows are deleted (each deletion
\* fires post_delete), then the user's RoleHistory rows, then the user.
destroy(db, u) ==
  LET mine == {k \in DOMAIN db.rows : k.user = u}
      logged == db.history \o removal_entries(QueryList(mine))
      IsOthers(h) == h.user # u
  IN Out(DB([x \in DOMAIN db.rows \ mine |-> db.rows[x]],
            SelectSeq(logged, IsOthers)), {}, 0)

\* DELETE /users/<id>/.  Afterwards the identifier stands for a principal
\* registered later: it has no assignment and no history either.
DestroyUser(u) ==
  Apply("destroy", destroy(DB(rows, history), u))

\* The service layer and the user management endpoint, for two principals
\* and the capped role.
NextAdmin ==
  \/ ServiceCalls(CapKeys)
  \/ \E u \in Users : DestroyUser(u)

SpecAdmin == Init /\ [][NextAdmin]_vars

(* ----------------------------------------------------- role catalog *)
\* The maintenance of the role graph and of the permissions, and the
\* assignment and revocation of roles with and without an expiry as time
\* passes, for one principal and two roles.
NextRoles ==
  \/ \E r \in RoleIds, parent \in RoleIds \cup {NoRole} : UpdateRole(r, parent)
  \/ \E n \in PermissionNames, a \in BOOLEAN : UpdatePermission(n, a)
  \/ \E k \in Keys, e \in {NULL, MaxTime} : Assign(k, e, FALSE)
  \/ \E k \in Keys : Revoke(k.user, k.role, FALSE)
  \/ Tick

SpecRoles == Init /\ [][NextRoles]_vars

(* ------------------------------------------- interleaved transactions *)
\* assign_role_to_user run by two connections under READ COMMITTED, the
\* isolation level of the PostgreSQL backend: every statement reads the
\* committed rows and the transaction's own writes, the writes of a
\* transaction become visible at its commit, and a statement that writes a
\* row another open transaction has written waits for that transaction.
Open(p) == tx[p].pc \in {"check", "save", "clear", "commit", "sweep_update", "sweep_loop"}

\* What the statements of transaction p read.
View(p) ==
  [x \in DOMAIN rows \cup DOMAIN tx[p].wrows |->
     IF x \in DOMAIN tx[p].wrows THEN tx[p].wrows[x] ELSE rows[x]]

\* The rows another open transaction holds a write lock on.
LockedByOthers(p) ==
  UNION {DOMAIN tx[q].wrows : q \in {q \in Procs \ {p} : Open(q)}}

\* The rows transaction p has written once its statement wrote the rows ks
\* of its view new.
Written(p, new, ks) ==
  [x \in DOMAIN tx[p].wrows \cup ks |-> new[x]]

Finish(p, err) ==
  /\ tx' = [tx EXCEPT ![p] = [Idle EXCEPT !.pc = "done", !.err = err]]
  /\ last' = [op |-> "assign", err |-> err, ret |-> IF err = {} THEN 1 ELSE 0]

\* The call starts: transaction.atomic opens the transaction.
TxBegin(p, k, e, pr) ==
  /\ tx[p].pc \in {"idle", "done"}
  /\ tx' = [tx EXCEPT ![p] = [Idle EXCEPT !.pc = "check", !.key = k,
                                         !.expires_at = e, !.is_primary = pr]]
  /\ UNCHANGED <<rows, roles, permissions, history, now, last>>

\* services.py:336, the capacity check.
TxCheck(p) ==
  /\ tx[p].pc = "check"
  /\ IF assign_check(View(p), roles, tx[p].key.role)
     THEN /\ tx' = [tx EXCEPT ![p].pc = "save"]
          /\ UNCHANGED last
     ELSE Finish(p, {"max_users"})
  /\ UNCHANGED <<rows, roles, permissions, history, now>>

\* services.py:342-364, get_or_create and the save of an existing row.
TxSave(p) ==
  /\ tx[p].pc = "save"
  /\ tx[p].key \notin LockedByOthers(p)
  /\ \E out \in {assign_get_or_create(DB(View(p), tx[p].whist), roles,
                     tx[p].key, tx[p].expires_at, tx[p].is_primary)} :
       IF out.err # {} THEN Finish(p, out.err)
       ELSE /\ tx' = [tx EXCEPT ![p] = [@ EXCEPT !.pc = "clear",
                                          !.wrows = Written(p, out.db.rows, {tx[p].key}),
                                          !.whist = out.db.history]]
            /\ UNCHANGED last
  /\ UNCHANGED <<rows, roles, permissions, history, now>>

\* services.py:367-372, the demotion of the other primaries.
TxClear(p) ==
  /\ tx[p].pc = "clear"
  /\ \E hit \in {IF tx[p].is_primary
                  THEN OtherActivePrimaries(View(p), tx[p].key.user, {tx[p].key})
                  ELSE {}} :
       /\ hit \cap LockedByOthers(p) = {}
       /\ tx' = [tx EXCEPT ![p] = [@ EXCEPT !.pc = "commit",
              !.wrows = Written(p, assign_clear(DB(View(p), tx[p].whist),
                                    tx[p].key, tx[p].is_primary).rows, hit)]]
  /\ UNCHANGED <<rows, roles, permissions, history, now, last>>

\* The atomic block ends: the writes are committed.
TxCommit(p) ==
  /\ tx[p].pc = "commit"
  /\ Len(history) + Len(tx[p].whist) <= MaxHist
  /\ rows' = View(p)
  /\ history' = history \o tx[p].whist
  /\ Finish(p, {})
  /\ UNCHANGED <<roles, permissions, now>>

\* Two transactions waiting for each other's row: the database aborts one.
TxDeadlock(p) ==
  /\ tx[p].pc \in {"save", "clear"}
  /\ \A q \in Procs : Open(q) /\ ~ENABLED (TxCheck(q) \/ TxSave(q) \/ TxClear(q) \/ TxCommit(q))
  /\ Finish(p, {"deadlock"})
  /\ UNCHANGED <<rows, roles, permissions, history, now>>

TxKeys == Keys \cup CapKeys

NextTx ==
  \/ \E p \in Procs, k \in TxKeys, pr \in BOOLEAN : TxBegin(p, k, NULL, pr)
  \/ \E p \in Procs : TxCheck(p)
  \/ \E p \in Procs : TxSave(p)
  \/ \E p \in Procs : TxClear(p)
  \/ \E p \in Procs : TxCommit(p)
  \/ \E p \in Procs : TxDeadlock(p)

SpecTx == Init /\ [][NextTx]_vars

(* ---------------------------------------------------- interleaved sweeps *)
\* expire_user_roles run by two connections under READ COMMITTED next to the
\* request middleware and to assignments with and without a past expiry, at
\* one instant.
\* The rows some open transaction holds a write lock on.
Locked == UNION {DOMAIN tx[q].wrows : q \in {q \in Procs : Open(q)}}

\* services.py:489-490: the transaction opens, the queryset is built and
\* count() is run on the committed rows.
SweepCount(p) ==
  /\ tx[p].pc \in {"idle", "done"}
  /\ tx' = [tx EXCEPT ![p] = [Idle EXCEPT !.pc = "sweep_update",
              !.count = Cardinality(get_expired_user_roles(rows, now))]]
  /\ UNCHANGED <<rows, roles, permissions, history, now, last>>

\* services.py:492: update(is_active=False) on the rows the filter matches
\* now; it waits while another open transaction has written one of them.
SweepUpdate(p) ==
  /\ tx[p].pc = "sweep_update"
  /\ get_expired_user_roles(View(p), now) \cap LockedByOthers(p) = {}
  /\ tx' = [tx EXCEPT ![p] = [@ EXCEPT !.pc = "sweep_loop",
              !.wrows = [x \in get_expired_user_roles(View(p), now) |->
                           [rows[x] EXCEPT !.is_active = FALSE]]]]
  /\ UNCHANGED <<rows, roles, permissions, history, now, last>>

\* services.py:495-509: the loop over the queryset, evaluated now on what
\* the transaction sees, the return of count and the commit.
SweepCommit(p) ==
  /\ tx[p].pc = "sweep_loop"
  /\ \E looped \in {QueryList(get_expired_user_roles(View(p), now))} :
       /\ Len(history) + Len(looped) <= MaxHist
       /\ history' = history \o expired_entries(looped)
  /\ rows' = View(p)
  /\ last' = [op |-> "expire", err |-> {}, ret |-> tx[p].count]
  /\ tx' = [tx EXCEPT ![p] = [Idle EXCEPT !.pc = "done", !.count = tx[p].count]]
  /\ UNCHANGED <<roles, permissions, now>>

NextSweep ==
  \/ \E k \in Keys \ Locked, e \in {NULL, 0} : Assign(k, e, FALSE)
  \/ \E u \in UsersOf(Keys) :
       /\ get_expired_user_roles(rows, now) \cap Locked = {}
       /\ Middleware(u)
  \/ \E p \in Procs : SweepCount(p)
  \/ \E p \in Procs : SweepUpdate(p)
  \/ \E p \in Procs : SweepCommit(p)

SpecSweep == Init /\ [][NextSweep]_vars

(* ------------------------------------------------- the ancestor walks *)
\* update_role and get_all_permissions hop by hop: every parent.inherits_from
\* is a query of its own on the committed role table.  update_role runs in
\* a transaction whose write is invisible to the other connection until it
\* commits, and Role.clean takes no lock, so two updates that are each
\* valid against the committed links can commit a cycle between them.
\* (update_role validates twice, in full_clean and again in save; the walk
\* shown is the last one before the write.)
\* models.py:210-211: parent = self.inherits_from.
CleanBegin(p, r, parent) ==
  /\ tx[p].pc \in {"idle", "done"}
  /\ tx' = [tx EXCEPT ![p] = [Idle EXCEPT !.pc = "clean_walk", !.role = r,
                                         !.parent = parent, !.cursor = parent]]
  /\ UNCHANGED <<rows, roles, permissions, history, now, last>>

\* models.py:212-217, one iteration of "while parent", and the default
\* check that follows the loop.
CleanStep(p) ==
  /\ tx[p].pc = "clean_walk"
  /\ IF tx[p].cursor = NoRole
     THEN IF /\ roles[tx[p].role].is_default
             /\ \E o \in RoleIds \ {tx[p].role} :
                  roles[o].is_default /\ roles[o].level = roles[tx[p].role].level
          THEN /\ tx' = [tx EXCEPT ![p] = [Idle EXCEPT !.pc = "done", !.err = {"is_default"}]]
               /\ last' = [op |-> "update_role", err |-> {"is_default"}, ret |-> 0]
          ELSE /\ tx' = [tx EXCEPT ![p].pc = "role_save"]
               /\ UNCHANGED last
     ELSE IF tx[p].cursor = tx[p].role
          THEN /\ tx' = [tx EXCEPT ![p] = [Idle EXCEPT !.pc = "done", !.err = {"inherits_from"}]]
               /\ last' = [op |-> "update_role", err |-> {"inherits_from"}, ret |-> 0]
          ELSE /\ tx' = [tx EXCEPT ![p].cursor = roles[tx[p].cursor].inherits_from]
               /\ UNCHANGED last
  /\ UNCHANGED <<rows, roles, permissions, history, now>>

\* models.py:233, super().save(), and the commit of update_role.
RoleWrite(p) ==
  /\ tx[p].pc = "role_save"
  /\ roles' = [roles EXCEPT ![tx[p].role].inherits_from = tx[p].parent]
  /\ tx' = [tx EXCEPT ![p] = [Idle EXCEPT !.pc = "done"]]
  /\ last' = [op |-> "update_role", err |-> {}, ret |-> 1]
  /\ UNCHANGED <<rows, permissions, history, now>>

\* Role.get_all_permissions is called on role r.
PermBegin(p, r) ==
  /\ tx[p].pc \in {"idle", "done"}
  /\ tx' = [tx EXCEPT ![p] = [Idle EXCEPT !.pc = "perm_walk", !.role = r,
                                         !.cursor = r]]
  /\ UNCHANGED <<rows, roles, permissions, history, now, last>>

\* models.py:180-181, one level of the recursion: the call on the role at
\* the cursor returns when the role has no parent and calls itself on the
\* parent otherwise.
PermStep(p) ==
  /\ tx[p].pc = "perm_walk"
  /\ IF roles[tx[p].cursor].inherits_from = NoRole
     THEN /\ tx' = [tx EXCEPT ![p] = [Idle EXCEPT !.pc = "done"]]
          /\ last' = [op |-> "get_all_permissions", err |-> {}, ret |-> 1]
     ELSE /\ tx' = [tx EXCEPT ![p].cursor = roles[tx[p].cursor].inherits_from]
          /\ UNCHANGED last
  /\ UNCHANGED <<rows, roles, permissions, history, now>>

\* The steps of the call connection p is in.
WalkStep(p) == CleanStep(p) \/ RoleWrite(p) \/ PermStep(p)

\* Connection t1 saves and queries any role while connection t2 saves r2.
NextWalk ==
  \/ \E r \in RoleIds, parent \in RoleIds \cup {NoRole} : CleanBegin("t1", r, parent)
  \/ \E parent \in RoleIds \cup {NoRole} : CleanBegin("t2", "r2", parent)
  \/ \E r \in RoleIds : PermBegin("t1", r)
  \/ \E p \in Procs : CleanStep(p)
  \/ \E p \in Procs : RoleWrite(p)
  \/ \E p \in Procs : PermStep(p)

\* A call that has a step to take takes it: each connection is a running
\* thread of its own.
SpecWalk ==
  Init /\ [][NextWalk]_vars /\ \A p \in Procs : WF_vars(WalkStep(p))

(* ------------------------------------------------------ REST endpoints *)
\* UserRoleViewSet.set_primary, first statement: update(is_primary=False) on
\* every row of the user flagged primary, active or not, the row itself
\* included.
view_clear_primaries(rs, u) ==
  [x \in DOMAIN rs |->
     IF x.user = u /\ rs[x].is_primary
     THEN [rs[x] EXCEPT !.is_primary = FALSE] ELSE rs[x]]

\* POST /user-roles/<pk>/set_primary/ up to its first write: get_object reads
\* the instance, the update demotes the primaries.  The view runs outside a
\* transaction (ATOMIC_REQUESTS is off), so the update is committed at once.
ViewSetPrimaryClear(p, k) ==
  /\ tx[p].pc \in {"idle", "done"}
  /\ k \in DOMAIN rows
  /\ rows' = view_clear_primaries(rows, k.user)
  /\ tx' = [tx EXCEPT ![p] = [Idle EXCEPT !.pc = "view_save", !.key = k,
                                         !.is_active = rows[k].is_active,
                                         !.is_primary = rows[k].is_primary,
                                         !.expires_at = rows[k].expires_at]]
  /\ UNCHANGED <<roles, permissions, history, now, last>>

\* The second write of the view: user_role.is_primary = True and the save
\* of the instance read by get_object.
ViewSetPrimarySave(p) ==
  /\ tx[p].pc = "view_save"
  /\ \E out \in {UserRole_save(DB(rows, history), roles, tx[p].key,
                     [is_active |-> tx[p].is_active, is_primary |-> TRUE,
                      expires_at |-> tx[p].expires_at], TRUE)} :
       /\ Len(out.db.history) <= MaxHist
       /\ rows' = out.db.rows
       /\ history' = out.db.history
       /\ last' = Call("view_set_primary", out)
       /\ tx' = [tx EXCEPT ![p] = [Idle EXCEPT !.pc = "done", !.err = out.err]]
  /\ UNCHANGED <<roles, permissions, now>>

\* The REST action of one connection next to the assign, revoke and
\* set_primary_role calls of the service layer, for one principal.
NextView ==
  \/ \E k \in Keys, pr \in BOOLEAN : Assign(k, NULL, pr)
  \/ \E k \in Keys : Revoke(k.user, k.role, FALSE)
  \/ \E k \in Keys : SetPrimary(k)
  \/ \E k \in Keys : ViewSetPrimaryClear("t1", k)
  \/ ViewSetPrimarySave("t1")

SpecView == Init /\ [][NextView]_vars

(* ---------------------------------------------------------------- claims *)
ActivePrimaries(rs, u) ==
  {k \in DOMAIN rs : k.user = u /\ rs[k].is_active /\ rs[k].is_primary}

ActiveRows(rs, u) == {k \in DOMAIN rs : k.user = u /\ rs[k].is_active}

Quiescent == \A p \in Procs : ~Open(p)

\* C1: after any sequence of service calls and direct saves every principal
\* has at most one assignment that is both active and primary.
C1_PrimaryUnique ==
  \A u \in Users : Cardinality(ActivePrimaries(rows, u)) <= 1

\* C1 witness: a principal with an active primary next to a second row that
\* is still flagged primary but inactive.
C1_Witness ==
  \E k1 \in DOMAIN rows, k2 \in DOMAIN rows :
    /\ k1.user = k2.user /\ k1 # k2
    /\ rows[k1].is_active /\ rows[k1].is_primary
    /\ ~rows[k2].is_active /\ rows[k2].is_primary

\* C2: once two interleaved Assign(..., isPrimary=true) transactions of one
\* principal have ended, the committed rows hold at most one active primary
\* of that principal.
C2_TxPrimaryUnique ==
  Quiescent => \A u \in Users : Cardinality(ActivePrimaries(rows, u)) <= 1

\* C3: Assign with isPrimary=true, called while the principal holds another
\* active primary, demotes every other active primary and leaves the
\* assigned row the only active primary of the principal.
C3_AssignPrimaryClears ==
  [][\A k \in Keys, e \in Expiries :
       (/\ last'.op = "assign"
        /\ OtherActivePrimaries(rows, k.user, {k}) # {}
        /\ Assign(k, e, TRUE))
       => /\ k \in DOMAIN rows'
          /\ ActivePrimaries(rows', k.user) = {k}]_vars

\* C4: the direct save of a new primary assignment for a principal that has
\* an active primary on another role raises a ValidationError and changes
\* no row and no history entry.
C4_SecondPrimaryRejected ==
  [][\A k \in Keys, inst \in Instances :
       (/\ last'.op = "create"
        /\ inst.is_primary
        /\ \E o \in ActivePrimaries(rows, k.user) : o.role # k.role
        /\ SaveNew(k, inst))
       => /\ last'.err # {}
          /\ last'.err \cap {"is_primary", "role"} # {}
          /\ rows' = rows
          /\ history' = history]_vars

\* C4 witness: a create was rejected for the primary flag while the
\* principal's active primary stands.
C4_Witness ==
  /\ last.op = "create"
  /\ last.err = {"is_primary"}
  /\ \E u \in Users : ActivePrimaries(rows, u) # {}

\* C5: set_primary_role on an active assignment leaves it primary and
\* leaves no other active assignment of the principal primary.
C5_SetPrimary ==
  [][\A k \in Keys :
       (/\ last'.op = "set_primary"
        /\ k \in DOMAIN rows
        /\ rows[k].is_active
        /\ SetPrimary(k))
       => /\ last'.err = {}
          /\ rows'[k].is_active
          /\ ActivePrimaries(rows', k.user) = {k}]_vars

\* C5 witness: set_primary_role returned and the principal has two active
\* assignments, exactly one of them primary.
C5_Witness ==
  /\ last.op = "set_primary"
  /\ last.err = {}
  /\ \E u \in Users :
       /\ Cardinality(ActiveRows(rows, u)) = 2
       /\ Cardinality(ActivePrimaries(rows, u)) = 1

\* C6: a successful Assign can be repeated with the same arguments: the
\* second call succeeds too and leaves the one row of the triple, active.
C6_AssignIdempotent ==
  [][\A k \in CapKeys, e \in Expiries, p \in BOOLEAN :
       (last'.op = "assign" /\ last'.err = {} /\ Assign(k, e, p))
       => LET again == assign_role_to_user(DB(rows', history'), roles', k, e, p)
          IN /\ again.err = {}
             /\ DOMAIN again.db.rows = DOMAIN rows'
             /\ again.db.rows[k].is_active]_vars

RoleFull(rs, ro, r) ==
  ro[r].max_users # NULL /\ get_user_count(rs, r) >= ro[r].max_users

\* C7, the rejection: Assign of a full role to a principal that holds no
\* active assignment of it raises the capacity error and changes no row.
C7_FullRoleRejects ==
  \A k \in CapKeys, e \in Expiries, p \in BOOLEAN :
    (/\ last'.op = "assign"
     /\ RoleFull(rows, roles, k.role)
     /\ \A o \in ActiveRows(rows, k.user) : o.role # k.role
     /\ Assign(k, e, p))
    => /\ last'.err = {"max_users"}
       /\ rows' = rows
       /\ history' = history

\* C7, the bound: no role ever has more active assignments than max_users.
C7_WithinCapacity ==
  \A r \in RoleIds :
    roles[r].max_users # NULL => get_user_count(rows, r) <= roles[r].max_users

\* C7: a full role rejects a further principal without a change, and the
\* number of active assignments of a role never exceeds its max_users.
C7_Capacity == []C7_WithinCapacity /\ [][C7_FullRoleRejects]_vars

\* C7 witness: Assign was just rejected for capacity and the role is full.
C7_Witness ==
  /\ last.op = "assign"
  /\ last.err = {"max_users"}
  /\ \E r \in RoleIds : RoleFull(rows, roles, r) /\ get_user_count(rows, r) = 1
  /\ \E u \in Users : ActiveRows(rows, u) = {}

\* C8: once two interleaved Assign transactions for the last free slot of
\* a role have ended, the committed active count is within max_users.
C8_TxWithinCapacity ==
  Quiescent =>
    \A r \in RoleIds :
      roles[r].max_users # NULL => get_user_count(rows, r) <= roles[r].max_users

\* The logical-active rule as the specification states it.
LogicallyActive(rs, k, t) ==
  rs[k].is_active /\ (rs[k].expires_at = NULL \/ rs[k].expires_at > t)

Remove(rs, k) == [x \in DOMAIN rs \ {k} |-> rs[x]]

RoleIdentifiers == RoleIds \cup {roles[r].name : r \in RoleIds}

\* The answers of the read path for principal pr on the rows rs.
Answers(rs, pr) ==
  [perm |-> [n \in PermissionNames |-> user_has_permission(rs, permissions, roles, pr, now, n)],
   any |-> [ns \in SUBSET PermissionNames |->
              user_has_any_permission(rs, permissions, roles, pr, now, ns)],
   all |-> [ns \in SUBSET PermissionNames |->
              user_has_all_permissions(rs, permissions, roles, pr, now, ns)],
   role |-> [i \in RoleIdentifiers |-> user_has_role(rs, roles, pr.id, now, i)],
   level |-> get_user_role_level(rs, roles, pr.id, now),
   primary |-> get_user_primary_role(rs, roles, pr.id, now)]

\* C9: a row that is inactive or past its expiry (swept or not) changes no
\* answer of the read path, and whatever a principal without the superuser
\* flag is granted comes from a logically active row.
C9_LogicalActive ==
  \A pr \in Principals :
    LET mine == {k \in DOMAIN rows : k.user = pr.id}
        live == {k \in mine : LogicallyActive(rows, k, now)}
        a == Answers(rows, pr)
    IN /\ \A k \in mine \ live : Answers(Remove(rows, k), pr) = a
       /\ ~pr.is_superuser =>
            /\ \A n \in PermissionNames :
                 a.perm[n] =>
                   \E k \in live : n \in get_all_permissions(permissions, roles, k.role)
            /\ \A i \in RoleIdentifiers :
                 a.role[i] => \E k \in live : k.role = i \/ roles[k.role].name = i
       /\ a.level \in {0} \cup {roles[k.role].level : k \in live}
       /\ a.primary \in {NoKey} \cup live

\* C9 witness: a principal with a row past its expiry whose flag is still
\* set, of a role that carries permissions, and no logically active row.
C9_Witness ==
  \E k \in DOMAIN rows :
    /\ rows[k].is_active /\ rows[k].is_primary
    /\ rows[k].expires_at # NULL /\ rows[k].expires_at <= now
    /\ roles[k.role].is_active
    /\ get_all_permissions(permissions, roles, k.role) # {}
    /\ \A o \in DOMAIN rows : o.user = k.user => ~LogicallyActive(rows, o, now)

Due(rs, t) ==
  {k \in DOMAIN rs : rs[k].is_active /\ rs[k].expires_at # NULL /\ rs[k].expires_at <= t}

\* C10: expire_user_roles deactivates exactly the active rows whose expiry
\* is at or before now, returns their number, and run again at once
\* returns 0 and changes nothing.
C10_ExpireDue ==
  [][(last'.op = "expire" /\ ExpireDue)
     => /\ DOMAIN rows' = DOMAIN rows
        /\ \A k \in DOMAIN rows :
             rows'[k] = IF k \in Due(rows, now)
                        THEN [rows[k] EXCEPT !.is_active = FALSE] ELSE rows[k]
        /\ last'.ret = Cardinality(Due(rows, now))
        /\ LET again == expire_user_roles(DB(rows', history'), now')
           IN again.ret = 0 /\ again.db = DB(rows', history')]_vars

\* C10 witness: the sweep deactivated a row and left an active row with a
\* later expiry alone.
C10_Witness ==
  /\ last.op = "expire"
  /\ last.ret >= 1
  /\ \E k \in DOMAIN rows :
       ~rows[k].is_active /\ rows[k].expires_at # NULL /\ rows[k].expires_at <= now
  /\ \E k \in DOMAIN rows : rows[k].is_active /\ rows[k].expires_at > now

Count(h, e) == Cardinality({i \in 1..Len(h) : h[i] = e})

\* C11: every assignment that a sweep (expire_user_roles or the request
\* middleware) flips from active to inactive gets exactly one 'expired'
\* history entry for its principal and role, and a second sweep adds none.
C11_ExpirationAudit ==
  [][((last'.op = "expire" /\ ExpireDue)
      \/ (last'.op = "middleware" /\ \E u \in Users : Middleware(u)))
     => /\ \A k \in DOMAIN rows :
             (rows[k].is_active /\ ~rows'[k].is_active)
             => Count(history', Entry(k, "expired"))
                  = Count(history, Entry(k, "expired")) + 1
        /\ expire_user_roles(DB(rows', history'), now').db.history = history']_vars

ActiveMatching(rs, u, r) ==
  {k \in DOMAIN rs : k.user = u /\ k.role = r /\ rs[k].is_active}

C13_RevokeAudit ==
  [][\A u \in Users, r \in RoleIds, s \in BOOLEAN :
       (last'.op = "revoke" /\ last'.ret = 1 /\ Revoke(u, r, s))
       => /\ Len(history') = Len(history) + 1
          /\ history'[Len(history')] = [user |-> u, role |-> r, action |-> "revoked"]]_vars

\* C14: a successful Assign appends an 'assigned' history entry for the
\* principal and the role, when it creates the row and when it reactivates
\* a revoked or expired one.
C14_AssignAudit ==
  [][\A k \in Keys, e \in Expiries, p \in BOOLEAN :
       (last'.op = "assign" /\ last'.err = {} /\ Assign(k, e, p))
       => /\ Len(history') = Len(history) + 1
          /\ history'[Len(history')] = Entry(k, "assigned")]_vars

\* The rows a step created or modified.
Mutated == {k \in DOMAIN rows' : k \notin DOMAIN rows \/ rows'[k] # rows[k]}

\* The history of assign, revoke, re-assign with a past expiry and sweep,
\* run at time t for the triple k on an empty table.
ScenarioHistory(k, t) ==
  LET a == assign_role_to_user(DB(NoRows, <<>>), roles, k, NULL, FALSE).db
      b == revoke_role_from_user(a, roles, k.user, k.role, FALSE).db
      c == assign_role_to_user(b, roles, k, t, FALSE).db
  IN expire_user_roles(c, t).db.history

\* C15: every step appends one history entry per assignment it mutates and
\* keeps the earlier entries in place; assign, revoke, re-assign with a past
\* expiry and sweep leave the entries assigned, revoked, assigned, expired.
C15_AuditComplete ==
  /\ [][/\ Len(history') = Len(history) + Cardinality(Mutated)
        /\ SubSeq(history', 1, Len(history)) = history]_vars
  /\ [](\A k \in Keys :
          roles[k.role].is_active =>
            ScenarioHistory(k, now)
              = <<Entry(k, "assigned"), Entry(k, "revoked"),
                  Entry(k, "assigned"), Entry(k, "expired")>>)

\* C16: the history is append-only: no step removes or rewrites an entry,
\* so the history before a step is a prefix of the history after it.
C16_AppendOnly ==
  [][/\ Len(history) <= Len(history')
     /\ SubSeq(history', 1, Len(history)) = history]_vars

\* The parents of the roles in S.
Parents(ro, S) == {ro[x].inherits_from : x \in S} \ {NoRole}

RECURSIVE Closure(_, _)
Closure(ro, S) ==
  IF Parents(ro, S) \subseteq S THEN S ELSE Closure(ro, S \cup Parents(ro, S))

\* The roles reached from r by one or more inherits_from links.
Ancestors(ro, r) == Closure(ro, Parents(ro, {r}))

Acyclic(ro) == \A r \in RoleIds : r \notin Ancestors(ro, r)

\* C17, the rejection: update_role with a parent whose chain leads back to
\* the role (the role itself included) raises the inherits_from error and
\* leaves the role table as it was.
C17_CyclicUpdateRejected ==
  \A r \in RoleIds, parent \in RoleIds :
    (/\ last'.op = "update_role"
     /\ parent = r \/ r \in Ancestors(roles, parent)
     /\ UpdateRole(r, parent))
    => /\ last'.err = {"inherits_from"}
       /\ roles' = roles

\* C17: a save that would close a cycle is rejected without a change, and
\* the inherits_from graph is acyclic in every state.
C17_NoCycle == []Acyclic(roles) /\ [][C17_CyclicUpdateRejected]_vars

\* C17 witness: an update was just rejected for inherits_from while some
\* role, with a parent of its own, is the parent of none: the rejected
\* update named a descendant or the role itself.
C17_Witness ==
  /\ last.op = "update_role"
  /\ last.err = {"inherits_from"}
  /\ \E a \in RoleIds, b \in RoleIds :
       a # b /\ roles[b].inherits_from = a /\ roles[a].inherits_from = NoRole
       /\ \A c \in RoleIds \ {a, b} : roles[c].inherits_from = NoRole

\* The active permissions granted directly to r or to one of its ancestors.
GrantedAlongChain(pe, ro, r) ==
  {n \in PermissionNames :
     pe[n].is_active /\ \E a \in {r} \cup Ancestors(ro, r) : n \in ro[a].permissions}

\* C18: the effective permissions of every role are exactly the active
\* permissions granted directly to it or to an ancestor at any distance,
\* and has_permission is membership in that set.
C18_InheritanceUnion ==
  \A r \in RoleIds :
    /\ get_all_permissions(permissions, roles, r)
         = GrantedAlongChain(permissions, roles, r)
    /\ \A n \in PermissionNames :
         has_permission(permissions, roles, r, n)
           <=> n \in GrantedAlongChain(permissions, roles, r)

\* C18 witness: a three-level chain r -> p -> gp in which gp is granted an
\* active permission that neither r nor p is granted, r and gp share
\* another one, and some permission granted along the chain is inactive.
C18_Witness ==
  \E r \in RoleIds, p \in RoleIds, gp \in RoleIds :
    /\ roles[r].inherits_from = p /\ roles[p].inherits_from = gp
    /\ roles[gp].inherits_from = NoRole
    /\ \E n \in roles[gp].permissions :
         /\ permissions[n].is_active
         /\ n \notin roles[r].permissions \cup roles[p].permissions
         /\ has_permission(permissions, roles, r, n)
    /\ roles[r].permissions \cap roles[gp].permissions # {}
    /\ \E n \in roles[r].permissions \cup roles[p].permissions \cup roles[gp].permissions :
         ~permissions[n].is_active /\ ~has_permission(permissions, roles, r, n)

\* The logically active assignments of principal u.
LiveKeys(u) == {k \in DOMAIN rows : k.user = u /\ LogicallyActive(rows, k, now)}

\* The permissions granted along the chains of the roles of the rows S.
GrantedBy(S) == UNION {GrantedAlongChain(permissions, roles, k.role) : k \in S}

\* The permission answers for principal pr are those of the set eff.
AnswersAre(pr, eff) ==
  /\ get_user_permissions(rows, permissions, roles, pr.id, now) = eff
  /\ \A n \in PermissionNames :
       user_has_permission(rows, permissions, roles, pr, now, n) <=> n \in eff
  /\ \A ns \in SUBSET PermissionNames :
       /\ user_has_any_permission(rows, permissions, roles, pr, now, ns)
            <=> ns \cap eff # {}
       /\ user_has_all_permissions(rows, permissions, roles, pr, now, ns)
            <=> ns \subseteq eff

C20_SuperuserBypass ==
  \A pr \in Principals :
    pr.is_superuser =>
      /\ \A n \in PermissionNames \cup {"no.such"} :
           user_has_permission(rows, permissions, roles, pr, now, n)
      /\ \A ns \in SUBSET (PermissionNames \cup {"no.such"}) :
           /\ user_has_any_permission(rows, permissions, roles, pr, now, ns)
           /\ user_has_all_permissions(rows, permissions, roles, pr, now, ns)

\* C20 witness: a principal holding a revoked and an expired assignment
\* only, to whom the role lookup grants nothing, passes the check with the
\* superuser flag and fails it without.
C20_Witness ==
  \E u \in Users :
    /\ \E k \in DOMAIN rows : k.user = u /\ ~rows[k].is_active
    /\ \E k \in DOMAIN rows :
         k.user = u /\ rows[k].is_active /\ ~LogicallyActive(rows, k, now)
    /\ get_user_permissions(rows, permissions, roles, u, now) = {}
    /\ user_has_permission(rows, permissions, roles,
                           [id |-> u, is_superuser |-> TRUE], now, "content.view")
    /\ ~user_has_permission(rows, permissions, roles,
                            [id |-> u, is_superuser |-> FALSE], now, "content.view")

\* The levels of the roles of the logically active assignments of u.
LiveLevels(u) == {roles[k.role].level : k \in LiveKeys(u)}

\* C21: the role level of a principal is the highest level among the roles
\* of its logically active assignments, 0 when it has none, and the highest
\* possible level for a principal with the superuser flag.
C21_RoleLevel ==
  \A pr \in Principals :
    get_user_role_level(rows, roles, pr.id, now)
      = IF pr.is_superuser THEN MaxRoleLevel
        ELSE IF LiveLevels(pr.id) = {} THEN 0 ELSE Max(LiveLevels(pr.id))

\* C22: deactivate_role sets the role inactive and every active assignment
\* of it inactive in one step, changes no assignment of another role, and
\* afterwards no principal has the role or an active assignment of it.
C22_DeactivateCascade ==
  [][\A r \in RoleIds :
       (last'.op = "deactivate_role" /\ DeactivateRole(r))
       => /\ ~roles'[r].is_active
          /\ \A o \in RoleIds \ {r} : roles'[o] = roles[o]
          /\ DOMAIN rows' = DOMAIN rows
          /\ \A k \in DOMAIN rows :
               rows'[k] = IF k.role = r
                          THEN [rows[k] EXCEPT !.is_active = FALSE]
                          ELSE rows[k]
          /\ \A u \in Users :
               /\ ~user_has_role(rows', roles', u, now', r)
               /\ ~user_has_role(rows', roles', u, now', roles[r].name)
               /\ \A k \in get_user_active_roles(rows', roles', u, now') :
                    k.role # r]_vars

\* C22 witness: a role was just deactivated, an assignment of it stands
\* inactive and an assignment of another role stands active.
C22_Witness ==
  /\ last.op = "deactivate_role"
  /\ \E k \in DOMAIN rows, o \in DOMAIN rows :
       /\ ~roles[k.role].is_active /\ ~rows[k].is_active
       /\ roles[o.role].is_active /\ rows[o].is_active /\ o.user = k.user

\* C23: Assign of a role whose is_active flag is false raises an error and
\* changes no row and no history entry.
C23_InactiveRoleRejected ==
  [][\A k \in Keys, e \in Expiries, p \in BOOLEAN :
       (/\ last'.op = "assign"
        /\ ~roles[k.role].is_active
        /\ Assign(k, e, p))
       => /\ last'.err # {}
          /\ rows' = rows
          /\ history' = history]_vars

\* C24: a primary switch is atomic to readers: when a principal has an
\* active primary, the committed state between the clearing write and the
\* setting write of a switch shows exactly one active primary of it.
C24_PrimarySwitchAtomic ==
  [][\A p \in Procs, k \in Keys :
       (/\ tx'[p].pc = "view_save"
        /\ ActivePrimaries(rows, k.user) # {}
        /\ ViewSetPrimaryClear(p, k))
       => Cardinality(ActivePrimaries(rows', k.user)) = 1]_vars

\* The number of logically active assignments of role r.
LogicalCount(r) ==
  Cardinality({k \in DOMAIN rows : k.role = r /\ LogicallyActive(rows, k, now)})

\* C25: the capacity check counts by the logical-active rule: Assign of a
\* capped role to a principal without a row of it succeeds whenever fewer
\* than max_users assignments of the role are logically active, expired
\* assignments that are not yet swept notwithstanding.
C25_CapacityCountsLogical ==
  [][\A k \in CapKeys, e \in Expiries :
       (/\ last'.op = "assign"
        /\ k \notin DOMAIN rows
        /\ roles[k.role].max_users # NULL
        /\ LogicalCount(k.role) < roles[k.role].max_users
        /\ Assign(k, e, FALSE))
       => last'.err = {}]_vars

\* C26, the count: a sweep that commits returns the number of assignments
\* it deactivated itself, and each of them ends inactive.
C26_SweepReportsOwnRows ==
  \A p \in Procs :
    (tx[p].pc = "sweep_loop" /\ SweepCommit(p))
    => /\ last'.ret = Cardinality(DOMAIN tx[p].wrows)
       /\ \A k \in DOMAIN tx[p].wrows : ~rows'[k].is_active

\* C26, the audit: a sweep that commits appends exactly one 'expired' entry
\* for each assignment it deactivated and nothing else.
C26_SweepLogsOwnRows ==
  \A p \in Procs :
    (tx[p].pc = "sweep_loop" /\ SweepCommit(p))
    => /\ Len(history') = Len(history) + Cardinality(DOMAIN tx[p].wrows)
       /\ \A k \in DOMAIN tx[p].wrows :
            Count(history', Entry(k, "expired"))
              = Count(history, Entry(k, "expired")) + 1

\* C26: when sweeps interleave with each other and with the middleware,
\* every due assignment is reported as expired by the one call that
\* deactivated it and gets exactly one 'expired' history entry.
C26_ConcurrentSweeps ==
  [][C26_SweepReportsOwnRows /\ C26_SweepLogsOwnRows]_vars

\* C27: the ancestor walks are bounded: once the stored inherits_from
\* links stop changing, whatever they are, the cycle check of a role save
\* and the computation of a role's effective permissions that have started
\* come to an end.
C27_WalksTerminate ==
  (<>[][roles' = roles]_vars) =>
    \A p \in Procs :
      (tx[p].pc \in {"clean_walk", "perm_walk"}) ~> (tx[p].pc = "done")

\* C28: for every principal, the answers of the permission checks, the
\* role check, the role level and the primary role at the current time are
\* the same on the stored rows and on the rows a sweep at that time leaves.
C28_SweepIndependent ==
  \A pr \in Principals :
    Answers(expire_user_roles(DB(rows, history), now).db.rows, pr)
      = Answers(rows, pr)

\* C28 witness: an assignment of an active role is due and not yet swept,
\* so a sweep now would change the rows.
C28_Witness ==
  /\ \E k \in DOMAIN rows :
       /\ rows[k].is_active
       /\ roles[k.role].is_active
       /\ rows[k].expires_at # NULL
       /\ rows[k].expires_at <= now
  /\ expire_user_roles(DB(rows, history), now).db.rows # rows

\* C29: a Revoke for a principal and a role touches the assignment of one
\* context only: there is a context such that every row other than the row
\* of that principal, role and context is left as it was.
C29_RevokeScoped ==
  [][\A u \in Users, r \in RoleIds, s \in BOOLEAN :
       (last'.op = "revoke" /\ Revoke(u, r, s))
       => \E c \in Contexts :
            \A o \in DOMAIN rows :
              o # [user |-> u, role |-> r, context |-> c] => rows'[o] = rows[o]]_vars

\* The assignments of principal u and role r that a step takes from active
\* to inactive or deletes.
Ended(u, r) ==
  {k \in DOMAIN rows :
     /\ k.user = u
     /\ k.role = r
     /\ \/ k \notin DOMAIN rows'
        \/ rows[k].is_active /\ ~rows'[k].is_active}

\* C30: a step appends no more 'revoked' history entries for a principal
\* and a role than it takes assignments of them from active to inactive or
\* deletes; a save of an assignment that is already inactive appends none.
C30_RevokedAudit ==
  [][\A u \in Users, r \in RoleIds :
       LET e == [user |-> u, role |-> r, action |-> "revoked"] IN
       Count(history', e) <= Count(history, e) + Cardinality(Ended(u, r))]_vars

====
